---- MODULE Spec2Model ----
(***************************************************************************)
(* The chat widget of chatbot-ui as a state machine.                       *)
(*                                                                         *)
(* State: the React state of ChatWidget (messages, input, editingMessage), *)
(* the axios calls in flight (one record per invocation of sendMessage,    *)
(* deleteMessage or editMessage that is suspended at its await), and the   *)
(* wall clock that Date.now() reads.  One action per event handler and one *)
(* per way a suspended call resumes.                                       *)
(*                                                                         *)
(* App is a second state machine over its own variables: the session       *)
(* (user, the loaded message list, loading), the auth notifications        *)
(* Firebase has yet to deliver and the document reads in flight.  Spec and *)
(* SpecLegacy run the widget under a rendered App, SpecApp runs App.       *)
(*                                                                         *)
(* Strings are sequences of one-character strings, so that trim(),         *)
(* Date.now().toString() and parseInt are computed and not assumed.        *)
(***************************************************************************)
EXTENDS Integers, Sequences, FiniteSets

VARIABLES
    messages,        \* useState<Message[]>(initialMessages)
    input,           \* useState("")
    editingMessage,  \* useState<string | null>(null)
    calls,           \* the suspended invocations (axios calls in flight)
    clock,           \* the value Date.now() returns
    issued,          \* number of network calls issued so far
    served,          \* number of ids the server has assigned so far
    solo,            \* history: the send issued with nothing else in flight
    ev,              \* history: the handler or completion that ran last
    user,            \* App: useState<User | null>(null), the user's uid
    appMessages,     \* App: useState<Message[] | null>(null)
    loading,         \* App: useState<boolean>(true)
    auth,            \* Firebase: the user signed in, auth.currentUser
    notes,           \* Firebase: auth notifications not yet delivered
    logout,          \* App: handleLogout is suspended at await signOut
    reads,           \* App: fetchMessages invocations suspended at await getDoc
    nreads,          \* number of document reads issued so far
    signIns,         \* number of sign-ins through the form so far
    signedOut,       \* history: handleLogout has finished, no sign-in since
    appEv            \* history: the App callback or completion that ran last

widgetVars ==
    <<messages, input, editingMessage, calls, clock, issued, served, solo, ev>>

appVars ==
    <<user, appMessages, loading, auth, notes, logout, reads, nreads, signIns,
      signedOut, appEv>>

vars == <<widgetVars, appVars>>

----------------------------------------------------------------------------
(* Bounds of the model *)

\* network calls issued in one run
MaxOps == 2
\* Date.now() at the moment the widget is mounted
FirstClock == 9
\* how many times the clock advances in one run
MaxTicks == 1
\* sign-ins through the login form in one run
MaxSignIns == 2
\* entries of a stored mapping
MaxEntries == 2

----------------------------------------------------------------------------
(* Strings *)

Digit(d) ==
    CASE d = 0 -> "0" [] d = 1 -> "1" [] d = 2 -> "2" [] d = 3 -> "3"
      [] d = 4 -> "4" [] d = 5 -> "5" [] d = 6 -> "6" [] d = 7 -> "7"
      [] d = 8 -> "8" [] d = 9 -> "9"

\* Number.prototype.toString() of a non-negative integer: its decimal digits
RECURSIVE ToString(_)
ToString(n) ==
    IF n < 10 THEN <<Digit(n)>> ELSE ToString(n \div 10) \o <<Digit(n % 10)>>

IsSpace(c) == c = " "

RECURSIVE TrimStart(_)
TrimStart(s) ==
    IF s # <<>> /\ IsSpace(Head(s)) THEN TrimStart(Tail(s)) ELSE s

RECURSIVE TrimEnd(_)
TrimEnd(s) ==
    IF s # <<>> /\ IsSpace(s[Len(s)]) THEN TrimEnd(SubSeq(s, 1, Len(s) - 1)) ELSE s

\* String.prototype.trim()
Trim(s) == TrimEnd(TrimStart(s))

\* what the user types into the input field
Texts == { <<" ">>, <<"h", "i">> }

\* what the user leaves in the edit field of a message
EditTexts == { <<>>, <<" ">>, <<" ", "y", "o">>, <<"y">> }

\* response.data.message
BotTexts == { <<>> }

----------------------------------------------------------------------------
(* Messages and the history the widget is mounted with *)

\* interface Message
Message(id, text, by) == [id |-> id, text |-> text, by |-> by]

\* string | null
NoId == <<>>

\* parseInt(s): the integer of the leading digits, NaN when there is none
DigitValue(c) ==
    CASE c = "0" -> 0 [] c = "1" -> 1 [] c = "2" -> 2 [] c = "3" -> 3
      [] c = "4" -> 4 [] c = "5" -> 5 [] c = "6" -> 6 [] c = "7" -> 7
      [] c = "8" -> 8 [] c = "9" -> 9 [] OTHER -> -1

RECURSIVE ParseDigits(_, _)
ParseDigits(s, acc) ==
    IF s = <<>> \/ DigitValue(Head(s)) < 0 THEN acc
    ELSE ParseDigits(Tail(s), 10 * acc + DigitValue(Head(s)))

ParseInt(s) ==
    LET t == TrimStart(s) IN
    IF t = <<>> \/ DigitValue(Head(t)) < 0 THEN [nan |-> TRUE, val |-> 0]
    ELSE [nan |-> FALSE, val |-> ParseDigits(t, 0)]

\* (a, b) => parseInt(a.id) - parseInt(b.id) puts b before a: the difference
\* is a number greater than 0 (NaN never is)
ComesAfter(a, b) ==
    LET x == ParseInt(a.id)
        y == ParseInt(b.id)
    IN  ~x.nan /\ ~y.nan /\ x.val - y.val > 0

\* Array.prototype.sort with that comparator: stable insertion
RECURSIVE InsertSorted(_, _)
InsertSorted(sorted, m) ==
    IF sorted # <<>> /\ ComesAfter(sorted[Len(sorted)], m)
    THEN Append(InsertSorted(SubSeq(sorted, 1, Len(sorted) - 1), m), sorted[Len(sorted)])
    ELSE Append(sorted, m)

RECURSIVE SortById(_)
SortById(s) ==
    IF s = <<>> THEN <<>>
    ELSE InsertSorted(SortById(SubSeq(s, 1, Len(s) - 1)), s[Len(s)])

\* Object.entries(rawMessages).map(...): one Message per entry, id = key
FormatMessages(entries) ==
    [i \in 1..Len(entries) |->
        Message(entries[i].key, entries[i].msg.text, entries[i].msg.by)]

\* an entry of a mapping of keys to {text, by}
Entry(key, text, by) == [key |-> key, msg |-> [text |-> text, by |-> by]]

\* What getDoc resolves with.  exists is docSnap.exists(); hasMessages says
\* that the document has a root field named messages, whose value is the
\* mapping messages; root is the other root fields.  Mappings are sequences
\* of entries, in the order Object.entries gives them.
Snapshot(exists, hasMessages, inner, root) ==
    [exists |-> exists, hasMessages |-> hasMessages, messages |-> inner,
     root |-> root]

\* no document is stored under the user's id
NoDoc == Snapshot(FALSE, FALSE, <<>>, <<>>)
\* the document { messages: M }
Wrapped(M) == Snapshot(TRUE, TRUE, M, <<>>)
\* the document that is M itself
Flat(M) == Snapshot(TRUE, FALSE, <<>>, M)

\* a variant that never looks for the messages field (const rawMessages = data)
RawMessagesFlatOnly(data) == data.root

\* const rawMessages = data.messages || data
\* a mapping, the empty one too, is an object and so truthy; a field that is
\* not there reads undefined
RawMessages(data) == IF data.hasMessages THEN data.messages ELSE data.root

\* a variant of fetchMessages that leaves out the sort
fetchMessagesUnsorted(docSnap) ==
    IF docSnap.exists THEN FormatMessages(RawMessages(docSnap)) ELSE <<>>

\* fetchMessages between its await and setMessages: the list it sets
fetchMessages(docSnap) ==
    IF docSnap.exists
    THEN SortById(FormatMessages(RawMessages(docSnap)))
    ELSE <<>>

\* the history of the widget's user: keys are timestamps of earlier sessions
History ==
    <<Entry(ToString(FirstClock - 2), <<"h", "i">>, "user"),
      Entry(ToString(FirstClock - 1), <<"o", "k">>, "bot")>>

\* the documents the widget's user may have
Docs == { NoDoc, Flat(History), Wrapped(History) }

----------------------------------------------------------------------------
(* The state patches of the three operations *)

\* const userMessage: Message = { id: tempId, text: input, by: "user" }
UserMessage(tempId, text) == Message(tempId, text, "user")

\* setMessages((prev) => [...prev, userMessage])
OptimisticInsert(prev, userMessage) == Append(prev, userMessage)

\* const botMessage = { id: data.botResponseId, text: data.message, by: "bot" }
BotMessage(data) == Message(data.botResponseId, data.message, "bot")

\* SendPatch with the bot message put first (unshift for concat)
SendPatchBotFirst(prev, tempId, data) ==
    <<BotMessage(data)>> \o
    [i \in 1..Len(prev) |->
        IF prev[i].id = tempId
        THEN [prev[i] EXCEPT !.id = data.userMessageId]
        ELSE prev[i]]

\* SendPatch computed from the list the handler saw when it issued the call,
\* where its optimistic message was the last one (setMessages(messages.map...)
\* on the closure's list for the updater on prev)
SendPatchFromIssue(prev, tempId, data) ==
    LET hits == { i \in 1..Len(prev) : prev[i].id = tempId }
        last == IF hits = {} THEN Len(prev)
                ELSE CHOOSE i \in hits : \A j \in hits : j <= i
    IN  [i \in 1..last |->
            IF prev[i].id = tempId
            THEN [prev[i] EXCEPT !.id = data.userMessageId]
            ELSE prev[i]]
        \o <<BotMessage(data)>>

\* SendPatch that builds the reconciled message anew with the response's
\* author, the bot (no spread of msg)
SendPatchRetagged(prev, tempId, data) ==
    [i \in 1..Len(prev) |->
        IF prev[i].id = tempId
        THEN Message(data.userMessageId, prev[i].text, "bot")
        ELSE prev[i]]
    \o <<BotMessage(data)>>

\* SendPatch that reconciles only the first message with the placeholder id
\* (findIndex and one assignment for map)
SendPatchFirstOnly(prev, tempId, data) ==
    LET hits  == { i \in 1..Len(prev) : prev[i].id = tempId }
        first == IF hits = {} THEN 0
                 ELSE CHOOSE i \in hits : \A j \in hits : i <= j
    IN  [i \in 1..Len(prev) |->
            IF i = first
            THEN [prev[i] EXCEPT !.id = data.userMessageId]
            ELSE prev[i]]
        \o <<BotMessage(data)>>

\* prev.map((msg) => msg.id === tempId ? {...msg, id: data.userMessageId} : msg)
\*     .concat(botMessage)
\* SendPatch that puts the bot's reply right after the reconciled message
\* (flatMap for map and the trailing spread)
SendPatchReplyInside(prev, tempId, data) ==
    LET hits == { i \in 1..Len(prev) : prev[i].id = tempId }
        last == IF hits = {} THEN Len(prev)
                ELSE CHOOSE i \in hits : \A j \in hits : j <= i
        done == [i \in 1..Len(prev) |->
                    IF prev[i].id = tempId
                    THEN [prev[i] EXCEPT !.id = data.userMessageId]
                    ELSE prev[i]]
    IN  SubSeq(done, 1, last) \o <<BotMessage(data)>>
        \o SubSeq(done, last + 1, Len(done))

SendPatch(prev, tempId, data) ==
    [i \in 1..Len(prev) |->
        IF prev[i].id = tempId
        THEN [prev[i] EXCEPT !.id = data.userMessageId]
        ELSE prev[i]]
    \o <<BotMessage(data)>>

\* DeletePatch with the test inverted (=== for !==): keeps what it should remove
DeletePatchInverted(prev, id) == SelectSeq(prev, LAMBDA msg : msg.id = id)

\* prev.filter((msg) => msg.id !== id)
DeletePatch(prev, id) == SelectSeq(prev, LAMBDA msg : msg.id # id)

\* EditPatch without the concat of the bot message
EditPatchNoReply(prev, id, newText, data) ==
    [i \in 1..Len(prev) |->
        IF prev[i].id = id
        THEN [prev[i] EXCEPT !.text = newText]
        ELSE prev[i]]

\* EditPatch that takes the edited message out and puts it back at the end
\* (filter and push for map)
EditPatchMoved(prev, id, newText, data) ==
    LET kept == SelectSeq(prev, LAMBDA msg : msg.id # id)
        hit  == SelectSeq(prev, LAMBDA msg : msg.id = id)
    IN  kept
        \o [i \in 1..Len(hit) |-> [hit[i] EXCEPT !.text = newText]]
        \o <<Message(data.botResponseId, data.message, "bot")>>

\* prev.map((msg) => msg.id === id ? {...msg, text: newText} : msg)
\*     .concat({id: data.botResponseId, text: data.message, by: "bot"})
EditPatch(prev, id, newText, data) ==
    [i \in 1..Len(prev) |->
        IF prev[i].id = id
        THEN [prev[i] EXCEPT !.text = newText]
        ELSE prev[i]]
    \o <<Message(data.botResponseId, data.message, "bot")>>

\* the send guard left out
SendAllowedAlways(text) == TRUE

\* SendAllowed without the trim
SendAllowedNoTrim(text) == text # <<>>

\* if (!input.trim()) return;
SendAllowed(text) == Trim(text) # <<>>

\* the edit guard without trim(): only the empty string is refused
EditAllowedNoTrim(newText) == newText # <<>>

\* if (!newText.trim()) return;
EditAllowed(newText) == Trim(newText) # <<>>

\* const tempId = Date.now().toString()
TempId(now) == ToString(now)

\* if (response.status === 200)
HTTP_OK == 200
\* another 2xx status, which axios resolves with
HTTP_NO_CONTENT == 204

\* a variant that takes every 2xx status for a confirmation
ConfirmedAnySuccess(status) == status \in {HTTP_OK, HTTP_NO_CONTENT}

Confirmed(status) == status = HTTP_OK

\* the statuses axios resolves a call with (validateStatus: 2xx)
ResolvedStatuses == {HTTP_OK, HTTP_NO_CONTENT}

----------------------------------------------------------------------------
(* The server: ids it assigns are fresh *)

ServerId(n) == <<"s">> \o ToString(n)

SendData(botText) ==
    [userMessageId |-> ServerId(served + 1),
     botResponseId |-> ServerId(served + 2),
     message       |-> botText]

EditData(botText) ==
    [botResponseId |-> ServerId(served + 1), message |-> botText]

----------------------------------------------------------------------------
(* History variables *)

NoCall == [kind |-> "none"]
NoData == [message |-> <<>>]
NoSolo == [n |-> 0, base |-> <<>>]

\* the completions that apply a patch
OkOps == {"sendOk", "deleteOk", "editOk"}

\* the confirmed calls so far, each with the data of its response
Confirmations(op, call, data) ==
    IF op \in OkOps THEN ev.ok \cup {[call |-> call, data |-> data]}
    ELSE ev.ok

\* before: the length of the list when the handler or completion started
Event(op, call, status, data) ==
    [op |-> op, call |-> call, status |-> status, data |-> data,
     before |-> Len(messages), ok |-> Confirmations(op, call, data)]

\* a step that neither issues nor completes a call
SoloKept == IF \E c \in calls : c.n = solo.n THEN solo ELSE NoSolo

----------------------------------------------------------------------------
(* The state of App *)

\* the accounts, by uid
Users == {"u1", "u2"}
\* User | null
NoUser == "null"

\* Message[] | null
NullList == [isNull |-> TRUE, list |-> <<>>]
List(list) == [isNull |-> FALSE, list |-> list]

NoRead == [n |-> 0, uid |-> NoUser]

AppEvent(op, read, docSnap) == [op |-> op, read |-> read, docSnap |-> docSnap]

\* App while it renders <ChatWidget userId={user.uid} initialMessages={messages!} />
\* for the user u1: signed in, the load finished, nothing pending
WidgetShown ==
    /\ user = "u1"
    /\ appMessages = List(messages)
    /\ loading = FALSE
    /\ auth = "u1"
    /\ notes = <<>>
    /\ logout = FALSE
    /\ reads = {}
    /\ nreads = 0
    /\ signIns = 0
    /\ signedOut = FALSE
    /\ appEv = AppEvent("init", NoRead, NoDoc)

\* no widget is rendered: the state a ChatWidget is constructed with
WidgetIdle ==
    /\ messages = <<>>
    /\ input = <<>>
    /\ editingMessage = NoId
    /\ calls = {}
    /\ clock = FirstClock
    /\ issued = 0
    /\ served = 0
    /\ solo = NoSolo
    /\ ev = [op |-> "init", call |-> NoCall, status |-> 0, data |-> NoData,
             before |-> 0, ok |-> {}]

----------------------------------------------------------------------------
(* Init *)

Init ==
    /\ messages \in { fetchMessages(doc) : doc \in Docs }
    /\ input = <<>>
    /\ editingMessage = NoId
    /\ calls = {}
    /\ clock = FirstClock
    /\ issued = 0
    /\ served = 0
    /\ solo = NoSolo
    /\ ev = [op |-> "init", call |-> NoCall, status |-> 0, data |-> NoData,
             before |-> 0, ok |-> {}]
    /\ WidgetShown

----------------------------------------------------------------------------
(* The user and the clock *)

\* onChange={(e) => setInput(e.target.value)}
setInput(text) ==
    /\ text # input
    /\ input' = text
    /\ solo' = SoloKept
    /\ ev' = Event("ui", NoCall, 0, NoData)
    /\ UNCHANGED <<messages, editingMessage, calls, clock, issued, served>>

\* time passes between two reads of Date.now()
Tick ==
    /\ clock < FirstClock + MaxTicks
    /\ clock' = clock + 1
    /\ solo' = SoloKept
    /\ ev' = Event("ui", NoCall, 0, NoData)
    /\ UNCHANGED <<messages, input, editingMessage, calls, issued, served>>

\* the Edit button of a user message: setEditingMessage(msg.id)
\* a variant that shows the Edit button on every message
setEditingMessageAny(i) ==
    /\ editingMessage # messages[i].id
    /\ editingMessage' = messages[i].id
    /\ solo' = SoloKept
    /\ ev' = Event("ui", NoCall, 0, NoData)
    /\ UNCHANGED <<messages, input, calls, clock, issued, served>>

setEditingMessage(i) ==
    /\ messages[i].by = "user"
    /\ editingMessage # messages[i].id
    /\ editingMessage' = messages[i].id
    /\ solo' = SoloKept
    /\ ev' = Event("ui", NoCall, 0, NoData)
    /\ UNCHANGED <<messages, input, calls, clock, issued, served>>

----------------------------------------------------------------------------
(* sendMessage *)

SendCall(tempId, text) ==
    [kind |-> "send", n |-> issued + 1, tempId |-> tempId, text |-> text]

\* the handler up to its await: the guard, the optimistic insert, the call
sendMessage ==
    IF ~SendAllowed(input)
    THEN /\ ev' = Event("sendNoop", NoCall, 0, NoData)
         /\ solo' = SoloKept
         /\ UNCHANGED <<messages, input, editingMessage, calls, clock, issued, served>>
    ELSE /\ issued < MaxOps
         /\ LET tempId == TempId(clock)
                call   == SendCall(tempId, input)
            IN  /\ messages' = OptimisticInsert(messages, UserMessage(tempId, input))
                /\ input' = <<>>
                /\ calls' = calls \cup {call}
                /\ issued' = issued + 1
                /\ solo' = IF calls = {} THEN [n |-> call.n, base |-> messages]
                                         ELSE NoSolo
                /\ ev' = Event("send", call, 0, NoData)
         /\ UNCHANGED <<editingMessage, clock, served>>

\* axios.post resolves: the code after the await
SendResolve(c, status, botText) ==
    /\ c \in calls /\ c.kind = "send"
    /\ calls' = calls \ {c}
    /\ IF Confirmed(status)
       THEN /\ messages' = SendPatch(messages, c.tempId, SendData(botText))
            /\ served' = served + 2
            /\ ev' = Event("sendOk", c, status, SendData(botText))
       ELSE /\ ev' = Event("sendNot200", c, status, NoData)
            /\ UNCHANGED <<messages, served>>
    /\ solo' = IF c.n = solo.n THEN solo ELSE NoSolo
    /\ UNCHANGED <<input, editingMessage, clock, issued>>

\* a variant whose catch block puts the text back in the input field
SendRejectRestoresInput(c) ==
    /\ c \in calls /\ c.kind = "send"
    /\ calls' = calls \ {c}
    /\ input' = c.text
    /\ solo' = NoSolo
    /\ ev' = Event("sendErr", c, 0, NoData)
    /\ UNCHANGED <<messages, editingMessage, clock, issued, served>>

\* a variant whose catch block takes the optimistic message back
SendRejectRollback(c) ==
    /\ c \in calls /\ c.kind = "send"
    /\ calls' = calls \ {c}
    /\ messages' = SelectSeq(messages, LAMBDA msg : msg.id # c.tempId)
    /\ solo' = NoSolo
    /\ ev' = Event("sendErr", c, 0, NoData)
    /\ UNCHANGED <<input, editingMessage, clock, issued, served>>

\* axios.post rejects: catch (error) { console.error(...) }
SendReject(c) ==
    /\ c \in calls /\ c.kind = "send"
    /\ calls' = calls \ {c}
    /\ solo' = NoSolo
    /\ ev' = Event("sendErr", c, 0, NoData)
    /\ UNCHANGED <<messages, input, editingMessage, clock, issued, served>>

----------------------------------------------------------------------------
(* deleteMessage *)

DeleteCall(id) == [kind |-> "delete", n |-> issued + 1, id |-> id]

\* a variant that removes the message before the request is answered
deleteMessageOptimistic(i) ==
    /\ messages[i].by = "user"
    /\ issued < MaxOps
    /\ messages' = DeletePatch(messages, messages[i].id)
    /\ calls' = calls \cup {DeleteCall(messages[i].id)}
    /\ issued' = issued + 1
    /\ solo' = NoSolo
    /\ ev' = Event("delete", DeleteCall(messages[i].id), 0, NoData)
    /\ UNCHANGED <<input, editingMessage, clock, served>>

\* the Delete button of a user message: deleteMessage(msg.id) up to its await
deleteMessage(i) ==
    /\ messages[i].by = "user"
    /\ issued < MaxOps
    /\ calls' = calls \cup {DeleteCall(messages[i].id)}
    /\ issued' = issued + 1
    /\ solo' = NoSolo
    /\ ev' = Event("delete", DeleteCall(messages[i].id), 0, NoData)
    /\ UNCHANGED <<messages, input, editingMessage, clock, served>>

\* axios.delete resolves: the code after the await
DeleteResolve(c, status) ==
    /\ c \in calls /\ c.kind = "delete"
    /\ calls' = calls \ {c}
    /\ IF Confirmed(status)
       THEN /\ messages' = DeletePatch(messages, c.id)
            /\ ev' = Event("deleteOk", c, status, NoData)
       ELSE /\ ev' = Event("deleteNot200", c, status, NoData)
            /\ UNCHANGED messages
    /\ solo' = NoSolo
    /\ UNCHANGED <<input, editingMessage, clock, issued, served>>

\* a variant whose catch block removes the message all the same
DeleteRejectRemoves(c) ==
    /\ c \in calls /\ c.kind = "delete"
    /\ calls' = calls \ {c}
    /\ messages' = DeletePatch(messages, c.id)
    /\ solo' = NoSolo
    /\ ev' = Event("deleteErr", c, 0, NoData)
    /\ UNCHANGED <<input, editingMessage, clock, issued, served>>

\* a variant whose catch block sends the request again
DeleteRejectRetries(c) ==
    /\ c \in calls /\ c.kind = "delete"
    /\ calls' = (calls \ {c}) \cup {DeleteCall(c.id)}
    /\ issued' = issued + 1
    /\ solo' = NoSolo
    /\ ev' = Event("deleteErr", c, 0, NoData)
    /\ UNCHANGED <<messages, input, editingMessage, clock, served>>

\* axios.delete rejects: catch (error) { console.error(...) }
DeleteReject(c) ==
    /\ c \in calls /\ c.kind = "delete"
    /\ calls' = calls \ {c}
    /\ solo' = NoSolo
    /\ ev' = Event("deleteErr", c, 0, NoData)
    /\ UNCHANGED <<messages, input, editingMessage, clock, issued, served>>

----------------------------------------------------------------------------
(* editMessage *)

EditCall(id, newText) ==
    [kind |-> "edit", n |-> issued + 1, id |-> id, newText |-> newText]

\* the arguments of a call of editMessage that returned at its guard
EditAttempt(id, newText) ==
    [kind |-> "none", id |-> id, newText |-> newText]

\* a variant that applies the new text before the request is answered
editMessageOptimistic(i, newText) ==
    /\ editingMessage # NoId
    /\ messages[i].id = editingMessage
    /\ IF ~EditAllowed(newText)
       THEN /\ ev' = Event("editNoop", EditAttempt(messages[i].id, newText), 0, NoData)
            /\ solo' = SoloKept
            /\ UNCHANGED <<messages, input, editingMessage, calls, clock, issued, served>>
       ELSE /\ issued < MaxOps
            /\ editingMessage' = NoId
            /\ messages' = [j \in 1..Len(messages) |->
                               IF messages[j].id = messages[i].id
                               THEN [messages[j] EXCEPT !.text = newText]
                               ELSE messages[j]]
            /\ calls' = calls \cup {EditCall(messages[i].id, newText)}
            /\ issued' = issued + 1
            /\ solo' = NoSolo
            /\ ev' = Event("edit", EditCall(messages[i].id, newText), 0, NoData)
            /\ UNCHANGED <<input, clock, served>>

\* the edit field is rendered in place of every message whose id is
\* editingMessage; onBlur and Enter call editMessage(msg.id, value)
editMessage(i, newText) ==
    /\ editingMessage # NoId
    /\ messages[i].id = editingMessage
    /\ IF ~EditAllowed(newText)
       THEN /\ ev' = Event("editNoop", EditAttempt(messages[i].id, newText), 0, NoData)
            /\ solo' = SoloKept
            /\ UNCHANGED <<messages, input, editingMessage, calls, clock, issued, served>>
       ELSE /\ issued < MaxOps
            /\ editingMessage' = NoId
            /\ calls' = calls \cup {EditCall(messages[i].id, newText)}
            /\ issued' = issued + 1
            /\ solo' = NoSolo
            /\ ev' = Event("edit", EditCall(messages[i].id, newText), 0, NoData)
            /\ UNCHANGED <<messages, input, clock, served>>

\* old: the texts, before the completion, of the messages with the call's id
EditEvent(op, c, status, data) ==
    [op |-> op, call |-> c, status |-> status, data |-> data,
     before |-> Len(messages), ok |-> Confirmations(op, c, data),
     old |-> { messages[i].text : i \in { j \in 1..Len(messages) :
                                             messages[j].id = c.id } }]

\* a variant that applies the text of the newest request only
\* (if (requestId !== latestRequestId) in front of the map)
EditResolveLatestOnly(c, status, botText) ==
    /\ c \in calls /\ c.kind = "edit"
    /\ calls' = calls \ {c}
    /\ IF Confirmed(status)
       THEN /\ messages' = IF c.n = issued
                           THEN EditPatch(messages, c.id, c.newText, EditData(botText))
                           ELSE Append(messages, BotMessage(EditData(botText)))
            /\ served' = served + 1
            /\ ev' = EditEvent("editOk", c, status, EditData(botText))
       ELSE /\ ev' = Event("editNot200", c, status, NoData)
            /\ UNCHANGED <<messages, served>>
    /\ solo' = NoSolo
    /\ UNCHANGED <<input, editingMessage, clock, issued>>

\* axios.post resolves: the code after the await
EditResolve(c, status, botText) ==
    /\ c \in calls /\ c.kind = "edit"
    /\ calls' = calls \ {c}
    /\ IF Confirmed(status)
       THEN /\ messages' = EditPatch(messages, c.id, c.newText, EditData(botText))
            /\ served' = served + 1
            /\ ev' = EditEvent("editOk", c, status, EditData(botText))
       ELSE /\ ev' = Event("editNot200", c, status, NoData)
            /\ UNCHANGED <<messages, served>>
    /\ solo' = NoSolo
    /\ UNCHANGED <<input, editingMessage, clock, issued>>

\* a variant whose catch block reopens the edit field
EditRejectRestores(c) ==
    /\ c \in calls /\ c.kind = "edit"
    /\ calls' = calls \ {c}
    /\ editingMessage' = c.id
    /\ solo' = NoSolo
    /\ ev' = Event("editErr", c, 0, NoData)
    /\ UNCHANGED <<messages, input, clock, issued, served>>

\* axios.post rejects: catch (error) { console.error(...) }
EditReject(c) ==
    /\ c \in calls /\ c.kind = "edit"
    /\ calls' = calls \ {c}
    /\ solo' = NoSolo
    /\ ev' = Event("editErr", c, 0, NoData)
    /\ UNCHANGED <<messages, input, editingMessage, clock, issued, served>>

----------------------------------------------------------------------------
(* The widget of ChatWidget.tsx, mounted with a loaded history *)

Next ==
    \/ \E text \in Texts : setInput(text) /\ UNCHANGED appVars
    \/ Tick /\ UNCHANGED appVars
    \/ \E i \in 1..Len(messages) : setEditingMessage(i) /\ UNCHANGED appVars
    \/ sendMessage /\ UNCHANGED appVars
    \/ \E c \in calls, status \in ResolvedStatuses, botText \in BotTexts :
          SendResolve(c, status, botText) /\ UNCHANGED appVars
    \/ \E c \in calls : SendReject(c) /\ UNCHANGED appVars
    \/ \E i \in 1..Len(messages) : deleteMessage(i) /\ UNCHANGED appVars
    \/ \E c \in calls, status \in ResolvedStatuses : DeleteResolve(c, status) /\ UNCHANGED appVars
    \/ \E c \in calls : DeleteReject(c) /\ UNCHANGED appVars
    \/ \E i \in 1..Len(messages), newText \in EditTexts : editMessage(i, newText) /\ UNCHANGED appVars
    \/ \E c \in calls, status \in ResolvedStatuses, botText \in BotTexts :
          EditResolve(c, status, botText) /\ UNCHANGED appVars
    \/ \E c \in calls : EditReject(c) /\ UNCHANGED appVars

\* App re-renders the widget with the same props: its state stays as it is
Spec == Init /\ [][Next]_vars

----------------------------------------------------------------------------
(* The widget of src/components/chat_widget.tsx: mounted with an empty     *)
(* list, no status check after a resolved call, and a deleteMessage that   *)
(* issues no call.                                                         *)

InitLegacy ==
    /\ messages = <<>>
    /\ input = <<>>
    /\ editingMessage = NoId
    /\ calls = {}
    /\ clock = FirstClock
    /\ issued = 0
    /\ served = 0
    /\ solo = NoSolo
    /\ ev = [op |-> "init", call |-> NoCall, status |-> 0, data |-> NoData,
             before |-> 0, ok |-> {}]
    /\ WidgetShown

\* axios.post resolves (any 2xx): the patch is applied with no status check
LegacySendResolve(c, status, botText) ==
    /\ c \in calls /\ c.kind = "send"
    /\ calls' = calls \ {c}
    /\ messages' = SendPatch(messages, c.tempId, SendData(botText))
    /\ served' = served + 2
    /\ ev' = Event("sendOk", c, status, SendData(botText))
    /\ solo' = IF c.n = solo.n THEN solo ELSE NoSolo
    /\ UNCHANGED <<input, editingMessage, clock, issued>>

\* deleteMessage: setMessages((prev) => prev.filter((msg) => msg.id !== id))
LegacyDeleteMessage(i) ==
    /\ messages[i].by = "user"
    /\ messages' = DeletePatch(messages, messages[i].id)
    /\ solo' = NoSolo
    /\ ev' = Event("delete", [kind |-> "delete", n |-> 0, id |-> messages[i].id],
                   0, NoData)
    /\ UNCHANGED <<input, editingMessage, calls, clock, issued, served>>

\* axios.post resolves (any 2xx): the patch is applied with no status check
LegacyEditResolve(c, status, botText) ==
    /\ c \in calls /\ c.kind = "edit"
    /\ calls' = calls \ {c}
    /\ messages' = EditPatch(messages, c.id, c.newText, EditData(botText))
    /\ served' = served + 1
    /\ ev' = Event("editOk", c, status, EditData(botText))
    /\ solo' = NoSolo
    /\ UNCHANGED <<input, editingMessage, clock, issued>>

NextLegacy ==
    \/ \E text \in Texts : setInput(text) /\ UNCHANGED appVars
    \/ Tick /\ UNCHANGED appVars
    \/ \E i \in 1..Len(messages) : setEditingMessage(i) /\ UNCHANGED appVars
    \/ sendMessage /\ UNCHANGED appVars
    \/ \E c \in calls, status \in ResolvedStatuses, botText \in BotTexts :
          LegacySendResolve(c, status, botText) /\ UNCHANGED appVars
    \/ \E c \in calls : SendReject(c) /\ UNCHANGED appVars
    \/ \E i \in 1..Len(messages) : LegacyDeleteMessage(i) /\ UNCHANGED appVars
    \/ \E i \in 1..Len(messages), newText \in EditTexts : editMessage(i, newText) /\ UNCHANGED appVars
    \/ \E c \in calls, status \in ResolvedStatuses, botText \in BotTexts :
          LegacyEditResolve(c, status, botText) /\ UNCHANGED appVars
    \/ \E c \in calls : EditReject(c) /\ UNCHANGED appVars

SpecLegacy == InitLegacy /\ [][NextLegacy]_vars

----------------------------------------------------------------------------
(* App: the session.  Firebase delivers the auth notifications in order to *)
(* the callback of onAuthStateChanged; fetchMessages is suspended at       *)
(* await getDoc and handleLogout at await signOut.                         *)

\* the keys of stored entries: timestamps, as decimal strings
KeyPool == { ToString(8), ToString(9), ToString(10) }

\* what the user u stored under the key: the text names its owner
StoredEntry(u, key) ==
    Entry(key,
          <<IF u = "u1" THEN "a" ELSE "b">> \o key,
          IF ParseInt(key).val % 2 = 0 THEN "user" ELSE "bot")

\* the mappings of the user u, each in every order Object.entries may give
\* (keys above 2^32 - 2 come in the order the object was built in); u2 has
\* stored one message at most
Mappings(u) ==
    { [i \in 1..Len(keys) |-> StoredEntry(u, keys[i])] :
        keys \in { k \in UNION { [1..n -> KeyPool] :
                                   n \in 0..(IF u = "u1" THEN MaxEntries ELSE 1) } :
                     \A i, j \in 1..Len(k) : i # j => k[i] # k[j] } }

\* the document of the example in the description of the loader
ExampleDoc ==
    Flat(<<Entry(ToString(1700000000), <<"h", "i">>, "user"),
           Entry(ToString(1700000005), <<"h", "e", "l", "l", "o">>, "bot")>>)

\* what getDoc(doc(db, "Messages", uid)) may resolve with
Snapshots(uid) ==
    {NoDoc} \cup { Flat(M) : M \in Mappings(uid) }
            \cup { Wrapped(M) : M \in Mappings(uid) }
            \cup (IF uid = "u1" THEN {ExampleDoc} ELSE {})

\* App is constructed; Firebase will notify once with the restored session
InitApp ==
    /\ WidgetIdle
    /\ user = NoUser
    /\ appMessages = NullList
    /\ loading = TRUE
    /\ auth \in {NoUser, "u1"}
    /\ notes = <<auth>>
    /\ logout = FALSE
    /\ reads = {}
    /\ nreads = 0
    /\ signIns = 0
    /\ signedOut = FALSE
    /\ appEv = AppEvent("init", NoRead, NoDoc)

\* const userDocRef = doc(db, "Messages", userId)
Read(uid) == [n |-> nreads + 1, uid |-> uid]

\* a variant whose fetchMessages does not start with setLoading(true)
onAuthStateChangedKeepsLoading ==
    /\ notes # <<>>
    /\ notes' = Tail(notes)
    /\ user' = Head(notes)
    /\ IF Head(notes) # NoUser
       THEN /\ reads' = reads \cup {Read(Head(notes))}
            /\ nreads' = nreads + 1
            /\ signedOut' = FALSE
            /\ appEv' = AppEvent("authUser", Read(Head(notes)), NoDoc)
            /\ UNCHANGED <<appMessages, loading>>
       ELSE /\ appMessages' = NullList
            /\ loading' = FALSE
            /\ appEv' = AppEvent("authNone", NoRead, NoDoc)
            /\ UNCHANGED <<reads, nreads, signedOut>>
    /\ UNCHANGED <<auth, logout, signIns>>

\* the callback of onAuthStateChanged, up to its await:
\* setUser(user); then fetchMessages(user.uid) up to await getDoc, or the
\* else branch
onAuthStateChanged ==
    /\ notes # <<>>
    /\ notes' = Tail(notes)
    /\ user' = Head(notes)
    /\ IF Head(notes) # NoUser
       THEN /\ loading' = TRUE
            /\ reads' = reads \cup {Read(Head(notes))}
            /\ nreads' = nreads + 1
            /\ signedOut' = FALSE
            /\ appEv' = AppEvent("authUser", Read(Head(notes)), NoDoc)
            /\ UNCHANGED appMessages
       ELSE /\ appMessages' = NullList
            /\ loading' = FALSE
            /\ appEv' = AppEvent("authNone", NoRead, NoDoc)
            /\ UNCHANGED <<reads, nreads, signedOut>>
    /\ UNCHANGED <<auth, logout, signIns>>

\* handleAuth with credentials Firebase accepts, from the login form (which
\* is rendered while user is null): the sign-in is notified, nothing is set
handleAuth(u) ==
    /\ user = NoUser /\ auth = NoUser /\ notes = <<>> /\ ~logout
    /\ signIns < MaxSignIns
    /\ auth' = u
    /\ notes' = Append(notes, u)
    /\ signIns' = signIns + 1
    /\ appEv' = AppEvent("signIn", NoRead, NoDoc)
    /\ UNCHANGED <<user, appMessages, loading, logout, reads, nreads, signedOut>>

\* handleLogout up to its await (the Logout button is rendered while user
\* is set): signOut(auth) ends the session, which is notified
handleLogout ==
    /\ user # NoUser /\ auth # NoUser /\ ~logout
    /\ auth' = NoUser
    /\ notes' = Append(notes, NoUser)
    /\ logout' = TRUE
    /\ appEv' = AppEvent("logout", NoRead, NoDoc)
    /\ UNCHANGED <<user, appMessages, loading, reads, nreads, signIns, signedOut>>

\* signOut resolves: setUser(null); setMessages(null); setLoading(false)
LogoutResume ==
    /\ logout
    /\ logout' = FALSE
    /\ user' = NoUser
    /\ appMessages' = NullList
    /\ loading' = FALSE
    /\ signedOut' = TRUE
    /\ appEv' = AppEvent("logoutDone", NoRead, NoDoc)
    /\ UNCHANGED <<auth, notes, reads, nreads, signIns>>

\* a variant that sets no list when there is no document
GetDocResolveSkipsMissing(r, docSnap) ==
    /\ r \in reads
    /\ reads' = reads \ {r}
    /\ appMessages' = IF docSnap.exists THEN List(fetchMessages(docSnap))
                      ELSE appMessages
    /\ loading' = FALSE
    /\ appEv' = AppEvent("readOk", r, docSnap)
    /\ UNCHANGED <<user, auth, notes, logout, nreads, signIns, signedOut>>

\* getDoc resolves: fetchMessages after its await,
\* setMessages(formattedMessages) or setMessages([]), then setLoading(false)
GetDocResolve(r, docSnap) ==
    /\ r \in reads
    /\ reads' = reads \ {r}
    /\ appMessages' = List(fetchMessages(docSnap))
    /\ loading' = FALSE
    /\ appEv' = AppEvent("readOk", r, docSnap)
    /\ UNCHANGED <<user, auth, notes, logout, nreads, signIns, signedOut>>

\* a variant that reads again when the read failed
GetDocRejectRetries(r) ==
    /\ r \in reads
    /\ reads' = (reads \ {r}) \cup {Read(r.uid)}
    /\ nreads' = nreads + 1
    /\ appEv' = AppEvent("readErr", r, NoDoc)
    /\ UNCHANGED <<user, appMessages, loading, auth, notes, logout, signIns, signedOut>>

\* getDoc rejects: fetchMessages has no catch, the rejection leaves the
\* callback and nothing after the await runs
GetDocReject(r) ==
    /\ r \in reads
    /\ reads' = reads \ {r}
    /\ appEv' = AppEvent("readErr", r, NoDoc)
    /\ UNCHANGED <<user, appMessages, loading, auth, notes, logout, nreads, signIns, signedOut>>

\* App renders <ChatWidget initialMessages={messages!} /> while a user is set
\* and loading is false
WidgetRendered(u, l) == u # NoUser /\ ~l

\* the render after a step of App: a widget that was not rendered is
\* constructed, useState(initialMessages); one that stays rendered keeps its
\* state whatever the new props are; otherwise there is none
Render ==
    /\ messages' =
          IF WidgetRendered(user', loading')
          THEN IF WidgetRendered(user, loading) THEN messages
               ELSE appMessages'.list
          ELSE <<>>
    /\ UNCHANGED <<input, editingMessage, calls, clock, issued, served, solo, ev>>

NextApp ==
    \/ onAuthStateChanged /\ Render
    \/ \E u \in Users : handleAuth(u) /\ Render
    \/ handleLogout /\ Render
    \/ LogoutResume /\ Render
    \/ \E r \in reads : \E docSnap \in Snapshots(r.uid) :
          GetDocResolve(r, docSnap) /\ Render
    \/ \E r \in reads : GetDocReject(r) /\ Render

SpecApp == InitApp /\ [][NextApp]_vars

\* a read in flight is answered: getDoc resolves or rejects
GetDocSettles ==
    \E r \in reads :
        \/ \E docSnap \in Snapshots(r.uid) : GetDocResolve(r, docSnap) /\ Render
        \/ GetDocReject(r) /\ Render

\* App with the progress the event loop and the network give: a queued
\* notification is delivered, a resolved signOut resumes handleLogout, and
\* every read is answered, one way or the other; the user is not obliged
\* to sign in or out
SpecAppLive ==
    /\ InitApp
    /\ [][NextApp]_vars
    /\ WF_vars(onAuthStateChanged /\ Render)
    /\ WF_vars(LogoutResume /\ Render)
    /\ WF_vars(GetDocSettles)

----------------------------------------------------------------------------
(* Properties *)

\* the positions of a list whose message has the given id
Holding(list, id) == { i \in 1..Len(list) : list[i].id = id }

\* the number of messages of a list written by the given author
CountBy(list, by) == Cardinality({ i \in 1..Len(list) : list[i].by = by })

SendOps == {"send", "sendNoop"}
DeleteIdleOps == {"delete", "deleteNot200", "deleteErr"}
EditFailedOps == {"editNot200", "editErr"}
SendFailedOps == {"sendNot200", "sendErr"}
EditOps == {"edit", "editNoop"}
EditDoneOps == {"editOk", "editNot200", "editErr"}
IssueOps == {"send", "delete", "edit"}
DoneOps == {"sendOk", "sendNot200", "sendErr", "deleteOk", "deleteNot200",
            "deleteErr", "editOk", "editNot200", "editErr"}
FailedOps == {"sendNot200", "sendErr", "deleteNot200", "deleteErr",
              "editNot200", "editErr"}

\* C1: a send of a text that is non-empty after trimming appends exactly one
\* user message (and no bot message) in the step that issues the call, and
\* its successful completion adds exactly one bot message (and no user
\* message), which is the last element, so after every message carrying the
\* server's id of that user message; whatever else is in flight.
C1_SendAddsUserThenBot ==
    [][ /\ (ev'.op \in SendOps /\ Trim(input) # <<>>) =>
              /\ ev'.op = "send"
              /\ Len(messages') = Len(messages) + 1
              /\ SubSeq(messages', 1, Len(messages)) = messages
              /\ messages'[Len(messages')] =
                    [id |-> ev'.call.tempId, text |-> input, by |-> "user"]
              /\ CountBy(messages', "user") = CountBy(messages, "user") + 1
              /\ CountBy(messages', "bot") = CountBy(messages, "bot")
        /\ ev'.op = "sendOk" =>
              /\ Len(messages') = Len(messages) + 1
              /\ CountBy(messages', "bot") = CountBy(messages, "bot") + 1
              /\ CountBy(messages', "user") = CountBy(messages, "user")
              /\ messages'[Len(messages')] =
                    [id |-> ev'.data.botResponseId, text |-> ev'.data.message,
                     by |-> "bot"]
              /\ \A i \in Holding(messages, ev'.call.tempId) :
                    /\ i < Len(messages')
                    /\ messages'[i].id = ev'.data.userMessageId
                    /\ messages'[i].by = messages[i].by
      ]_vars

\* a send has completed with success while another operation was in flight,
\* and its user message stands before the bot message
C1_Witness ==
    /\ ev.op = "sendOk"
    /\ calls # {}
    /\ \E i \in 1..(Len(messages) - 1) :
          /\ messages[i].id = ev.data.userMessageId
          /\ messages[i].by = "user"
    /\ messages[Len(messages)].by = "bot"

\* C2: sendMessage with an input that is empty or only whitespace issues no
\* call and leaves the list, the input and the pending-edit marker unchanged.
C2_BlankSendIsNoop ==
    [][ (ev'.op \in SendOps /\ Trim(input) = <<>>) =>
            /\ calls' = calls
            /\ issued' = issued
            /\ messages' = messages
            /\ input' = input
            /\ editingMessage' = editingMessage
      ]_vars

\* sendMessage has run on an input of whitespace, with a list that is not empty
C2_Witness ==
    /\ ev.op = "sendNoop"
    /\ input = <<" ">>
    /\ messages # <<>>

\* C3: right after a send completes with success, no message of the list
\* has the placeholder id that this send generated.
C3_PlaceholderGone ==
    ev.op = "sendOk" => Holding(messages, ev.call.tempId) = {}

\* a send has completed with success while two messages carried its
\* placeholder id (both now carry the server's id)
C3_Witness ==
    /\ ev.op = "sendOk"
    /\ Cardinality(Holding(messages, ev.data.userMessageId)) = 2

\* C4: a send issued with nothing in flight, and completed with success with
\* no operation issued in between, yields the list L it started from followed
\* by {id: u, text: t, by: user} and {id: b, text: m, by: bot}.
C4_SoloSendResult ==
    (ev.op = "sendOk" /\ ev.call.n = solo.n) =>
        messages = solo.base \o
            << [id |-> ev.data.userMessageId, text |-> ev.call.text, by |-> "user"],
               [id |-> ev.data.botResponseId, text |-> ev.data.message, by |-> "bot"] >>

C6_DeleteWaitsForConfirmation ==
    [][ ev'.op \in DeleteIdleOps => messages' = messages ]_vars

\* C7: a successful edit makes the list exactly one longer and removes no
\* message; an edit that failed leaves the list, so every text, as it was.
C7_EditLength ==
    [][ /\ ev'.op = "editOk" =>
              /\ Len(messages') = Len(messages) + 1
              /\ \A i \in 1..Len(messages) :
                    /\ messages'[i].id = messages[i].id
                    /\ messages'[i].by = messages[i].by
              /\ messages'[Len(messages')].by = "bot"
        /\ ev'.op \in EditFailedOps => messages' = messages
      ]_vars

\* an edit has completed with success on a list of at least two messages
C7_Witness ==
    /\ ev.op = "editOk"
    /\ ev.before >= 2
    /\ Len(messages) = ev.before + 1

\* C8: on a successful edit every message with the edited id has the new
\* text at its position, with id and by as before, every other message is as
\* before, and the bot message of the response is the last element.
C8_EditInPlace ==
    [][ ev'.op = "editOk" =>
            /\ Len(messages') = Len(messages) + 1
            /\ \A i \in 1..Len(messages) :
                  messages'[i] =
                      IF messages[i].id = ev'.call.id
                      THEN [id |-> messages[i].id, text |-> ev'.call.newText,
                            by |-> messages[i].by]
                      ELSE messages[i]
            /\ messages'[Len(messages')] =
                  [id |-> ev'.data.botResponseId, text |-> ev'.data.message,
                   by |-> "bot"]
      ]_vars

\* an edit has completed with success: the edited user message, which is not
\* the first of the list, has the new text, and the bot message is last
C8_Witness ==
    /\ ev.op = "editOk"
    /\ \E i \in 2..(Len(messages) - 1) :
          /\ messages[i].id = ev.call.id
          /\ messages[i].text = ev.call.newText
          /\ messages[i].by = "user"
    /\ messages[Len(messages)].id = ev.data.botResponseId

\* C9: no two messages of the list have the same id.
C9_UniqueIds ==
    \A i, j \in 1..Len(messages) : i # j => messages[i].id # messages[j].id

\* C10: the placeholder id a send generates is the id of no message that is
\* in the list at the optimistic insert.
C10_PlaceholderFresh ==
    [][ ev'.op = "send" => Holding(messages, ev'.call.tempId) = {} ]_vars

\* C11: the step in which a send call fails (rejected, or resolved without
\* the 200 status) leaves the whole list as it was, so the optimistic message
\* keeps its position, its placeholder id and its text and no bot message is
\* added; the call leaves the calls in flight and no call is issued.
C11_FailedSendKeepsPlaceholder ==
    [][ ev'.op \in SendFailedOps =>
            /\ messages' = messages
            /\ calls' = calls \ {ev'.call}
            /\ issued' = issued
      ]_vars

\* a send was rejected and its message is still there, last, under the
\* placeholder id and with the text that was sent
C11_Witness ==
    /\ ev.op = "sendErr"
    /\ Len(messages) >= 1
    /\ messages[Len(messages)] = UserMessage(ev.call.tempId, ev.call.text)
    /\ ev.call \notin calls

\* C12: the author of a message never changes: a step that removes nothing
\* keeps the author at every position, and a confirmed delete keeps the
\* authors of the messages it keeps, in their order.
C12_AuthorKept ==
    [][ IF ev'.op = "deleteOk"
        THEN LET kept == SelectSeq(messages, LAMBDA msg : msg.id # ev'.call.id)
             IN  /\ Len(messages') = Len(kept)
                 /\ \A i \in 1..Len(kept) : messages'[i].by = kept[i].by
        ELSE /\ Len(messages') >= Len(messages)
             /\ \A i \in 1..Len(messages) : messages'[i].by = messages[i].by
      ]_vars

\* a send was reconciled: the message under the server's id is the user's,
\* between a bot message of the history and the bot message of the response
C12_Witness ==
    /\ ev.op = "sendOk"
    /\ calls = {}
    /\ CountBy(messages, "bot") >= 2
    /\ \E i \in Holding(messages, ev.data.userMessageId) : messages[i].by = "user"

\* C13: editMessage called with a text that is empty after trimming issues
\* no call and leaves the list, the pending-edit marker and the input as
\* they were.
C13_BlankEditIsNoop ==
    [][ (ev'.op \in EditOps /\ Trim(ev'.call.newText) = <<>>) =>
            /\ ev'.op = "editNoop"
            /\ calls' = calls
            /\ issued' = issued
            /\ messages' = messages
            /\ editingMessage' = editingMessage
            /\ input' = input
      ]_vars

\* an edit field was left holding one space: the field is still open
C13_Witness ==
    /\ ev.op = "editNoop"
    /\ ev.call.newText = <<" ">>
    /\ editingMessage = ev.call.id
    /\ editingMessage # NoId

\* C14: editMessage called with a text that is not blank clears the
\* pending-edit marker in the step that issues the call, while the call is
\* still in flight; no completion of an edit call, failed or not, changes
\* the marker.
C14_MarkerClearedAtIssue ==
    [][ /\ (ev'.op \in EditOps /\ Trim(ev'.call.newText) # <<>>) =>
              /\ ev'.op = "edit"
              /\ editingMessage' = NoId
              /\ ev'.call \in calls'
              /\ ev'.call \notin calls
        /\ ev'.op \in EditDoneOps => editingMessage' = editingMessage
      ]_vars

\* an edit was rejected: the marker is none and the message is unedited
C14_Witness ==
    /\ ev.op = "editErr"
    /\ editingMessage = NoId
    /\ \E i \in Holding(messages, ev.call.id) : messages[i].text # ev.call.newText

\* C15: an edit is not applied before its call succeeds: the step that
\* issues it leaves the list as it was, and a step changes the text at a
\* position only when it is the confirmed completion of an edit call of that
\* message's id, which was in flight, and the text becomes that call's text.
C15_EditNotOptimistic ==
    [][ /\ ev'.op = "edit" => messages' = messages
        /\ ev'.op # "deleteOk" =>
              \A i \in 1..Len(messages) :
                  messages'[i].text # messages[i].text =>
                      /\ ev'.op = "editOk"
                      /\ ev'.call \in calls
                      /\ ev'.call.id = messages[i].id
                      /\ messages'[i].text = ev'.call.newText
      ]_vars

\* an edit is in flight and its message still has the old text
C15_Witness ==
    /\ ev.op = "edit"
    /\ ev.call \in calls
    /\ \E i \in Holding(messages, ev.call.id) : messages[i].text # ev.call.newText

\* the mapping a stored document holds, whichever its shape
MappingOf(docSnap) ==
    IF docSnap.hasMessages THEN docSnap.messages ELSE docSnap.root

\* the same mapping stored in the other shape
OtherShape(docSnap) ==
    IF docSnap.hasMessages THEN Flat(docSnap.messages)
    ELSE Wrapped(docSnap.root)

IntegerOf(id) == ParseInt(id).val

\* C16: when a read resolves with an existing document, the list set has as
\* many messages as the mapping has entries, every entry is the source of
\* exactly one of them (id its key, text and by its text and by), and the
\* ids are in ascending order of their integer value; the document with keys
\* 1700000000 and 1700000005 gives its two messages in that order.
C16_LoaderFormatsAndSorts ==
    (appEv.op = "readOk" /\ appEv.docSnap.exists) =>
        LET M    == MappingOf(appEv.docSnap)
            list == appMessages.list
        IN  /\ ~appMessages.isNull
            /\ Len(list) = Len(M)
            /\ \A i \in 1..Len(M) :
                  Cardinality({ j \in 1..Len(list) :
                      list[j] = [id |-> M[i].key, text |-> M[i].msg.text,
                                 by |-> M[i].msg.by] }) = 1
            /\ \A j, k \in 1..Len(list) :
                  j < k => IntegerOf(list[j].id) <= IntegerOf(list[k].id)
            /\ appEv.docSnap = ExampleDoc =>
                  list = << [id |-> ToString(1700000000), text |-> <<"h", "i">>,
                             by |-> "user"],
                            [id |-> ToString(1700000005),
                             text |-> <<"h", "e", "l", "l", "o">>, by |-> "bot"] >>

\* a document that lists the key 10 before the key 9 was loaded: the message
\* of key 9 comes first
C16_Witness ==
    /\ appEv.op = "readOk"
    /\ appEv.docSnap.exists
    /\ Len(MappingOf(appEv.docSnap)) = 2
    /\ MappingOf(appEv.docSnap)[1].key = ToString(10)
    /\ MappingOf(appEv.docSnap)[2].key = ToString(9)
    /\ appMessages.list[1].id = ToString(9)
    /\ appMessages.list[2].id = ToString(10)

\* C17: when a read resolves with no document (getDoc resolves, exists() is
\* false: nothing is thrown), that step takes the read out of flight, sets
\* the message list to the empty list (not none) and loading to false.
C17_MissingDocumentIsEmptyList ==
    [][ (appEv'.op = "readOk" /\ ~appEv'.docSnap.exists) =>
            /\ appEv'.read \in reads
            /\ appEv'.read \notin reads'
            /\ appMessages' = List(<<>>)
            /\ loading' = FALSE
      ]_vars

\* the first load of a signed-in user found no document
C17_Witness ==
    /\ appEv.op = "readOk"
    /\ ~appEv.docSnap.exists
    /\ user = appEv.read.uid
    /\ nreads = 1
    /\ appMessages = List(<<>>)
    /\ ~loading

\* C18: the list set from an existing document is the list fetchMessages
\* gives for the same mapping stored in the other shape, wrapped in a
\* messages field or flat at the root, the empty mapping included.
C18_BothShapesAgree ==
    (appEv.op = "readOk" /\ appEv.docSnap.exists) =>
        /\ ~appMessages.isNull
        /\ appMessages.list = fetchMessages(OtherShape(appEv.docSnap))
        /\ Len(appMessages.list) = Len(MappingOf(appEv.docSnap))

\* a document { messages: M } with two entries was loaded
C18_Witness ==
    /\ appEv.op = "readOk"
    /\ appEv.docSnap.exists
    /\ appEv.docSnap.hasMessages
    /\ Len(appEv.docSnap.messages) = 2
    /\ Len(appMessages.list) = 2

\* C19: once handleLogout has finished and the sign-out has been notified,
\* and until the next sign-in notification is delivered, user is null and
\* the message list is null.
C19_SignOutClears ==
    (signedOut /\ notes = <<>>) => (user = NoUser /\ appMessages = NullList)

\* a notification is delivered to the callback of onAuthStateChanged
Delivered == notes # <<>> /\ notes' = Tail(notes)

\* C20: the delivery of a notification that carries a user issues exactly
\* one read, for that user's id; the delivery of one that carries none
\* issues no read; no other step issues a read; a read that is rejected
\* leaves flight, no read is issued for it and the message list is as before.
C20_OneReadPerSignIn ==
    [][ /\ (Delivered /\ Head(notes) # NoUser) =>
              /\ nreads' = nreads + 1
              /\ appEv'.read \notin reads
              /\ reads' = reads \cup {appEv'.read}
              /\ appEv'.read.uid = Head(notes)
        /\ (Delivered /\ Head(notes) = NoUser) =>
              /\ nreads' = nreads
              /\ reads' = reads
        /\ ~Delivered => (nreads' = nreads /\ reads' \subseteq reads)
        /\ appEv'.op = "readErr" =>
              /\ appEv'.read \in reads
              /\ reads' = reads \ {appEv'.read}
              /\ nreads' = nreads
              /\ appMessages' = appMessages
      ]_vars

\* the only read of a signed-in user was rejected: no list, still loading
C20_Witness ==
    /\ appEv.op = "readErr"
    /\ user = appEv.read.uid
    /\ nreads = 1
    /\ reads = {}
    /\ appMessages = NullList
    /\ loading

\* C21: a handler that passes its guard puts exactly one new call in flight
\* and counts one call issued; the completion of a call, failed or not, takes
\* that call out of flight and issues none; no other step issues a call.
C21_OneCallPerInvocation ==
    [][ /\ ev'.op \in IssueOps =>
              /\ ev'.call \notin calls
              /\ calls' = calls \cup {ev'.call}
              /\ issued' = issued + 1
        /\ ev'.op \in DoneOps =>
              /\ ev'.call \in calls
              /\ calls' = calls \ {ev'.call}
              /\ issued' = issued
        /\ ev'.op \notin (IssueOps \cup DoneOps) =>
              /\ calls' = calls
              /\ issued' = issued
      ]_vars

\* the one call of a delete was rejected: nothing is in flight, one call
\* was issued in all
C21_Witness ==
    /\ ev.op = "deleteErr"
    /\ calls = {}
    /\ issued = 1

\* a text that passes both guards
SomeText == <<"h", "i">>
SomeNewText == <<" ", "y", "o">>

\* what the user can do with the widget while the model has calls to spare:
\* type, send what is typed, delete every user message, open the edit field
\* of every user message and commit the open one
Usable ==
    /\ input # SomeText => ENABLED setInput(SomeText)
    /\ SendAllowed(input) => ENABLED (sendMessage /\ ev'.op = "send")
    /\ \A i \in 1..Len(messages) :
          messages[i].by = "user" =>
              /\ ENABLED deleteMessage(i)
              /\ editingMessage # messages[i].id => ENABLED setEditingMessage(i)
              /\ editingMessage = messages[i].id /\ editingMessage # NoId =>
                    ENABLED (editMessage(i, SomeNewText) /\ ev'.op = "edit")

\* C22: a failed send, edit or delete changes nothing of what the handlers
\* and the patches read (list, input, pending-edit marker, calls issued): it
\* only takes its call out of flight, so whatever runs later runs as from the
\* state before the failure; and in the state it leaves, typing, send, delete
\* and edit are enabled.
C22_FailureLeavesWidgetUsable ==
    /\ [][ ev'.op \in FailedOps =>
              /\ messages' = messages
              /\ input' = input
              /\ editingMessage' = editingMessage
              /\ issued' = issued
              /\ calls' = calls \ {ev'.call}
         ]_vars
    /\ []((ev.op \in FailedOps /\ issued < MaxOps) => Usable)

\* a send failed, nothing is in flight, and the send after it succeeded: the
\* first message still has its placeholder id, the second is reconciled and
\* answered
C22_Witness ==
    /\ ev.op = "sendOk"
    /\ ev.call.n = 2
    /\ calls = {}
    /\ \E i \in 1..Len(messages) :
          /\ messages[i].by = "user"
          /\ messages[i].id = ToString(FirstClock)
    /\ \E i \in 1..Len(messages) :
          /\ messages[i].by = "user"
          /\ messages[i].id = ev.data.userMessageId
    /\ messages[Len(messages)].id = ev.data.botResponseId

ListChangingOps == {"send", "sendOk", "deleteOk", "editOk"}

\* C23 as stated: the step that issues the call of a send, an edit or a
\* delete leaves the list unchanged.
C23_IssueLeavesList ==
    [][ ev'.op \in IssueOps => messages' = messages ]_vars

\* C23 amended: the step that issues the call of an edit or a delete leaves
\* the list unchanged; the step that issues the call of a send appends the
\* optimistic message (placeholder id, the text sent, by user) and changes
\* nothing else of the list; every other change of the list happens in the
\* confirmed completion of a call.
C23_OnlySendInsertsAtIssue ==
    [][ /\ ev'.op \in {"edit", "delete"} => messages' = messages
        /\ ev'.op = "send" =>
              messages' = Append(messages, [id |-> ev'.call.tempId,
                                            text |-> ev'.call.text,
                                            by |-> "user"])
        /\ messages' # messages => ev'.op \in ListChangingOps
      ]_vars

\* a delete is in flight and the message it names is still in the list,
\* behind it an optimistic message whose send is in flight too
C23_Witness ==
    /\ ev.op = "delete"
    /\ ev.call \in calls
    /\ Holding(messages, ev.call.id) # {}
    /\ \E c \in calls : c.kind = "send" /\ Holding(messages, c.tempId) # {}

\* the message the call of a completion is about: its placeholder or its id
Targets(call, msg) ==
    IF call.kind = "send" THEN msg.id = call.tempId ELSE msg.id = call.id

\* C24: a confirmed completion patches the list as it is when the response
\* arrives: every message in the list at that moment that the call does not
\* name, so every message another operation added since the call was issued,
\* is in the list after the patch, unchanged and in the same order; a send
\* or an edit keeps the named messages at their positions too.
C24_NoLostUpdate ==
    [][ /\ ev'.op \in {"sendOk", "editOk"} =>
              /\ Len(messages') = Len(messages) + 1
              /\ \A i \in 1..Len(messages) :
                    IF Targets(ev'.call, messages[i])
                    THEN messages'[i].by = messages[i].by
                    ELSE messages'[i] = messages[i]
        /\ ev'.op = "deleteOk" =>
              messages' = SelectSeq(messages,
                                    LAMBDA msg : ~Targets(ev'.call, msg))
      ]_vars

\* the first send completed while a second send, issued after it with
\* another placeholder, is in flight: the second optimistic message is there
C24_Witness ==
    /\ ev.op = "sendOk"
    /\ ev.call.n = 1
    /\ \E c \in calls :
          /\ c.kind = "send"
          /\ c.tempId # ev.call.tempId
          /\ \E i \in Holding(messages, c.tempId) :
                /\ messages[i].text = c.text
                /\ i < Len(messages)

\* C25: after the confirmed completion of an edit every message with its id
\* has that edit's text, whichever texts other edits of the id wrote before
\* and whenever they were submitted; and every edit call in flight can be
\* the next to complete, whatever its place in the order of submission.
C25_LastAppliedEditWins ==
    /\ ev.op = "editOk" =>
          \A i \in Holding(messages, ev.call.id) :
              messages[i].text = ev.call.newText
    /\ \A c \in calls :
          c.kind = "edit" => ENABLED EditResolve(c, HTTP_OK, <<>>)

\* two edits of one message were in flight together; the edit submitted
\* second completed first and wrote y, then the edit submitted first
\* completed: the message has the first edit's text
C25_Witness ==
    /\ ev.op = "editOk"
    /\ ev.call.n = 1
    /\ issued = 2
    /\ served = 2
    /\ calls = {}
    /\ ev.old = {<<"y">>}
    /\ ev.call.newText = <<" ", "y", "o">>
    /\ \E i \in Holding(messages, ev.call.id) :
          messages[i].text = <<" ", "y", "o">>

\* C26: the optimistic message of a send and the text a confirmed edit
\* writes are not empty after trimming; the bot message a confirmed send or
\* edit appends has the text of the response as it came, an empty one too.
C26_UserTextNotBlank ==
    [][ /\ ev'.op = "send" =>
              /\ messages'[Len(messages')].by = "user"
              /\ Trim(messages'[Len(messages')].text) # <<>>
        /\ ev'.op = "editOk" =>
              \A i \in 1..Len(messages) :
                  messages'[i].text # messages[i].text =>
                      Trim(messages'[i].text) # <<>>
        /\ ev'.op \in {"sendOk", "editOk"} =>
              /\ messages'[Len(messages')].by = "bot"
              /\ messages'[Len(messages')].text = ev'.data.message
      ]_vars

\* an edit wrote a text that is not blank and the response's empty bot text
\* was appended as it is
C26_Witness ==
    /\ ev.op = "editOk"
    /\ ev.data.message = <<>>
    /\ messages[Len(messages)] = [id |-> ev.data.botResponseId, text |-> <<>>,
                                  by |-> "bot"]
    /\ \E i \in Holding(messages, ev.call.id) :
          /\ messages[i].text = ev.call.newText
          /\ Trim(messages[i].text) # <<>>

ResolvedOps == {"sendOk", "sendNot200", "deleteOk", "deleteNot200",
                "editOk", "editNot200"}

\* C27: a call that resolves is treated as confirmed exactly when its status
\* is 200; a call that resolves with another status leaves the list, so
\* every id and every text in it, as it was.
C27_Only200Confirms ==
    [][ ev'.op \in ResolvedOps =>
            /\ ev'.op \in {"sendOk", "deleteOk", "editOk"} <=> ev'.status = 200
            /\ ev'.status # 200 => messages' = messages
      ]_vars

\* a delete was answered 204: the message it names is still in the list
C27_Witness ==
    /\ ev.op = "deleteNot200"
    /\ ev.status = 204
    /\ Holding(messages, ev.call.id) # {}

\* C28: the step of a send that appends the optimistic message also sets the
\* input to the empty string; the text of the call it issues is the text of
\* that message, the input as it was typed; the failed completion of a send
\* leaves the input as it is.
C28_InputClearedAtSend ==
    [][ /\ ev'.op = "send" =>
              /\ Len(messages') = Len(messages) + 1
              /\ input' = <<>>
              /\ ev'.call.text = input
              /\ messages'[Len(messages')].text = ev'.call.text
        /\ ev'.op \in SendFailedOps => input' = input
      ]_vars

\* a send was rejected: the input is empty and the text that was sent is in
\* the list only
C28_Witness ==
    /\ ev.op = "sendErr"
    /\ input = <<>>
    /\ ev.call.text # <<>>
    /\ \E i \in Holding(messages, ev.call.tempId) :
          messages[i].text = ev.call.text

\* C29: when a send and an edit or a delete that was issued later against
\* the send's placeholder id have both been confirmed, in whichever order,
\* the message of that send (it carries the server's id by then) is gone
\* after the delete, and has the edit's text after the edit.
C29_RacedOperationLands ==
    \A s, o \in ev.ok :
        (/\ s.call.kind = "send"
         /\ o.call.kind \in {"delete", "edit"}
         /\ o.call.n > s.call.n
         /\ o.call.id = s.call.tempId) =>
            \A i \in Holding(messages, s.data.userMessageId) :
                /\ o.call.kind # "delete"
                /\ messages[i].text = o.call.newText

\* the lists fetchMessages can give from the document of a user
ListsOf(uid) == { fetchMessages(docSnap) : docSnap \in Snapshots(uid) }

\* C30: the list of the widget that is rendered while the user U is signed
\* in is a list loaded from the document of U.
C30_WidgetHoldsOwnMessages ==
    WidgetRendered(user, loading) => messages \in ListsOf(user)

\* C31: whenever App renders the widget (user is set and loading is false)
\* the message list it hands to it is a list, not null.
C31_RenderedWithList ==
    WidgetRendered(user, loading) => ~appMessages.isNull

\* the widget is rendered for a user who signed in through the form after a
\* sign-out, with the list of the read that has just resolved
C31_Witness ==
    /\ WidgetRendered(user, loading)
    /\ ~appMessages.isNull
    /\ appEv.op = "readOk"
    /\ appEv.read.uid = user
    /\ signIns >= 1
    /\ nreads >= 2

\* C32: whenever a user is signed in and the loading indicator is shown,
\* loading becomes false at some later time, given that every read is
\* answered, by a result or by a failure.
C32_LoadingEnds ==
    (user # NoUser /\ loading) ~> ~loading

\* every message of old is at its position in new, with the author it had
\* and with its id or its text as before; new may be longer
GrownInPlace(old, new) ==
    /\ Len(new) >= Len(old)
    /\ \A i \in 1..Len(old) :
          /\ new[i].by = old[i].by
          /\ new[i].id = old[i].id \/ new[i].text = old[i].text

\* new is old with some messages taken out, the others as they were and in
\* the order they had
RECURSIVE Thinned(_, _)
Thinned(old, new) ==
    IF new = <<>> THEN TRUE
    ELSE IF old = <<>> THEN FALSE
    ELSE IF Head(old) = Head(new) THEN Thinned(Tail(old), Tail(new))
    ELSE Thinned(Tail(old), new)

\* C33: no step reorders the list: a step leaves every message at its
\* position, rewriting at most its id or its text and adding messages at
\* the end only, or it removes messages and leaves the others as they were
\* and in the order they had.
C33_NoReorder ==
    [][ GrownInPlace(messages, messages') \/ Thinned(messages, messages')
      ]_vars

\* a send has completed while a later message was already in the list: the
\* reconciled message is followed by that message, and the reply is last
C33_Witness ==
    /\ ev.op = "sendOk"
    /\ Len(messages) >= 3
    /\ messages[Len(messages)].id = ev.data.botResponseId
    /\ \E i \in 1..(Len(messages) - 2) :
          /\ messages[i].id = ev.data.userMessageId
          /\ messages[i + 1].id # ev.data.botResponseId

\* the bot messages of a list, in the order of the list
BotsOf(list) == SelectSeq(list, LAMBDA msg : msg.by = "bot")

C35_MarkerNamesUserMessage ==
    \/ editingMessage = NoId
    \/ \E i \in 1..Len(messages) :
          /\ messages[i].id = editingMessage
          /\ messages[i].by = "user"

====
